---------------------------- MODULE Spec2Model ----------------------------
(***************************************************************************)
(* Model of src/app.py: the /process-products handler of the Weltrada      *)
(* automation API, its brand router, its parsers, its two download helpers *)
(* and clean_filename.                                                     *)
(*                                                                         *)
(* Text is modelled character by character: a Python str is a sequence of *)
(* one-character strings, so that lower(), upper(), strip(), substring    *)
(* tests, f-string formatting and path joining are computed, not assumed. *)
(* A character outside ASCII is written by its code point ("U+0130").     *)
(***************************************************************************)
EXTENDS Naturals, Sequences, FiniteSets, TLC

---------------------------------------------------------------------------
(* Bounds of the model.                                                    *)

\* Longest input table explored.
MaxRows == 2

\* Number of relevant <img> elements on a product page that was fetched.
MaxImages == 2

\* Longest string handed to clean_filename / scrape_by_brand in SpecFn.
MaxLen == 3

---------------------------------------------------------------------------
(* Characters and the str methods the program uses.                        *)

UpperLetters ==
    <<"A", "B", "C", "D", "E", "F", "G", "H", "I", "J", "K", "L", "M",
      "N", "O", "P", "Q", "R", "S", "T", "U", "V", "W", "X", "Y", "Z">>

LowerLetters ==
    <<"a", "b", "c", "d", "e", "f", "g", "h", "i", "j", "k", "l", "m",
      "n", "o", "p", "q", "r", "s", "t", "u", "v", "w", "x", "y", "z">>

Digits ==
    <<"0", "1", "2", "3", "4", "5", "6", "7", "8", "9">>

Range(s) == {s[i] : i \in DOMAIN s}

\* U+0130 LATIN CAPITAL LETTER I WITH DOT ABOVE, U+0131 LATIN SMALL LETTER
\* DOTLESS I (both letters), U+0307 COMBINING DOT ABOVE (a mark, not a letter).
CapitalDottedI == "U+0130"
SmallDotlessI == "U+0131"
CombiningDot == "U+0307"

\* str.isalnum() of one character.
IsAlnum(c) ==
    c \in Range(UpperLetters) \cup Range(LowerLetters) \cup Range(Digits)
          \cup {CapitalDottedI, SmallDotlessI}

IndexIn(t, c) == CHOOSE i \in DOMAIN t : t[i] = c

\* c.lower() of one character: a string, because the lower-case form of
\* U+0130 is the two characters "i" U+0307.
LowerChar(c) ==
    IF c \in Range(UpperLetters) THEN <<LowerLetters[IndexIn(UpperLetters, c)]>>
    ELSE IF c = CapitalDottedI THEN <<"i", CombiningDot>>
    ELSE <<c>>

\* c.upper() of one character.
UpperChar(c) ==
    IF c \in Range(LowerLetters) THEN <<UpperLetters[IndexIn(LowerLetters, c)]>>
    ELSE IF c = SmallDotlessI THEN <<"I">>
    ELSE <<c>>

RECURSIVE Lower(_)
\* s.lower()
Lower(s) == IF s = <<>> THEN <<>> ELSE LowerChar(Head(s)) \o Lower(Tail(s))

RECURSIVE Upper(_)
\* s.upper()
Upper(s) == IF s = <<>> THEN <<>> ELSE UpperChar(Head(s)) \o Upper(Tail(s))

IsSpace(c) == c \in {" ", "\t"}

\* s.strip(): drop leading and trailing whitespace.
Strip(s) ==
    LET keep == {i \in DOMAIN s : ~IsSpace(s[i])}
        Min(S) == CHOOSE x \in S : \A y \in S : x <= y
        Max(S) == CHOOSE x \in S : \A y \in S : x >= y
    IN  IF keep = {} THEN <<>> ELSE SubSeq(s, Min(keep), Max(keep))

\* sub in s
Contains(sub, s) ==
    \E i \in 0..Len(s) : i + Len(sub) <= Len(s) /\ SubSeq(s, i + 1, i + Len(sub)) = sub

\* s.startswith(p)
StartsWith(s, p) == Len(p) <= Len(s) /\ SubSeq(s, 1, Len(p)) = p

\* s.replace(" ", "-")
ReplaceSpaces(s) == [i \in DOMAIN s |-> IF s[i] = " " THEN "-" ELSE s[i]]

RECURSIVE JoinStr(_, _)
\* sep.join(parts)
JoinStr(sep, parts) ==
    IF parts = <<>> THEN <<>>
    ELSE IF Len(parts) = 1 THEN parts[1]
    ELSE parts[1] \o sep \o JoinStr(sep, Tail(parts))

\* f"{n:03d}": at least three decimal digits, zero padded.
RECURSIVE Decimal(_)
Decimal(n) == IF n < 10 THEN <<Digits[n + 1]>> ELSE Decimal(n \div 10) \o <<Digits[(n % 10) + 1]>>

Pad3(n) ==
    LET d == Decimal(n)
    IN  IF Len(d) >= 3 THEN d ELSE [i \in 1..(3 - Len(d)) |-> "0"] \o d

\* f"{n:02d}" as strftime's %M writes the minute.
Pad2(n) ==
    LET d == Decimal(n)
    IN  IF Len(d) >= 2 THEN d ELSE <<"0">> \o d

---------------------------------------------------------------------------
(* String literals of the source.                                          *)


BASE_DIR ==
    <<"/", "o", "p", "t", "/", "r", "e", "n", "d", "e", "r", "/", "p", "r", "o", "j", "e", "c", "t", "/", "s", "r", "c">>

sResearch ==
    <<"R", "e", "s", "e", "a", "r", "c", "h", "-">>

sDatePrefix ==
    <<"0", "3", "-", "1", "1", "-", "2", "0", "2", "6", "-", "a", "t", "-", "1", "0", "-">>

sImages ==
    <<"I", "m", "a", "g", "e", "s">>

sInfo ==
    <<"I", "n", "f", "o">>

sEn ==
    <<"e", "n">>

sTr ==
    <<"t", "r">>

sBreadcrumbs ==
    <<"B", "r", "e", "a", "d", "c", "r", "u", "m", "b", "s">>

sSayfaYollari ==
    <<"S", "a", "y", "f", "a", "-", "Y", "o", "l", "l", "a", "r", "U+0131">>

sDatasheets ==
    <<"D", "a", "t", "a", "s", "h", "e", "e", "t", "s">>

sUploaded ==
    <<"u", "p", "l", "o", "a", "d", "e", "d", ".", "x", "l", "s", "x">>

sBreadcrumbsTxt ==
    <<"-", "b", "r", "e", "a", "d", "c", "r", "u", "m", "b", "s", ".", "t", "x", "t">>

sSayfaYoluTxt ==
    <<"-", "s", "a", "y", "f", "a", "-", "y", "o", "l", "u", ".", "t", "x", "t">>

sWebp ==
    <<".", "w", "e", "b", "p">>

sDatasheetEnPdf ==
    <<"-", "d", "a", "t", "a", "s", "h", "e", "e", "t", "-", "e", "n", ".", "p", "d", "f">>

sDatasheetTrPdf ==
    <<"-", "d", "a", "t", "a", "s", "h", "e", "e", "t", "-", "t", "r", ".", "p", "d", "f">>

sProductsInfo ==
    <<"p", "r", "o", "d", "u", "c", "t", "s", "-", "i", "n", "f", "o", ".", "x", "l", "s", "x">>

sUrunDetaylari ==
    <<"u", "r", "u", "n", "-", "d", "e", "t", "a", "y", "l", "a", "r", "i", ".", "x", "l", "s", "x">>

sZip ==
    <<".", "z", "i", "p">>

sNan ==
    <<"n", "a", "n">>

sCrumbSep ==
    <<" ", ">", " ">>

kwSchneider ==
    <<"s", "c", "h", "n", "e", "i", "d", "e", "r">>

kwAbb ==
    <<"a", "b", "b">>

kwAllen ==
    <<"a", "l", "l", "e", "n">>

kwRockwell ==
    <<"r", "o", "c", "k", "w", "e", "l", "l">>

kwEaton ==
    <<"e", "a", "t", "o", "n">>

kwLegrand ==
    <<"l", "e", "g", "r", "a", "n", "d">>

kwWago ==
    <<"w", "a", "g", "o">>

kwSiemens ==
    <<"s", "i", "e", "m", "e", "n", "s">>

nmSchneider ==
    <<"S", "c", "h", "n", "e", "i", "d", "e", "r", " ", "E", "l", "e", "c", "t", "r", "i", "c">>

nmAbb ==
    <<"A", "B", "B", " ", "G", "r", "o", "u", "p">>

nmAllen ==
    <<"A", "l", "l", "e", "n", " ", "B", "r", "a", "d", "l", "e", "y", " ", "(", "R", "o", "c", "k", "w", "e", "l", "l", " ", "A", "u", "t", "o", "m", "a", "t", "i", "o", "n", ")">>

nmEaton ==
    <<"E", "a", "t", "o", "n">>

nmLegrand ==
    <<"L", "e", "g", "r", "a", "n", "d">>

nmWago ==
    <<"W", "a", "g", "o">>

nmSiemens ==
    <<"S", "i", "e", "m", "e", "n", "s">>

---------------------------------------------------------------------------
(* clean_filename.                                                         *)

Kept(c) == IsAlnum(c) \/ c \in {"-", "_"}

\* Spaces become "-", every character that is neither alphanumeric nor "-"
\* nor "_" is dropped, and what is kept is written in lower case.
clean_filename(s) == Lower(SelectSeq(ReplaceSpaces(s), Kept))

---------------------------------------------------------------------------
(* What a product page gives a parser.                                     *)
(*                                                                         *)
(* A page stands for the outcome of requests.get + BeautifulSoup + the     *)
(* parser's selectors: err (the fetch or the parse raised inside the       *)
(* parser's try), the text of the first <h1> ("" if there is none), the    *)
(* breadcrumb entries, the image sources that pass the parser's relevance  *)
(* filter (made absolute, without duplicates), the first PDF link ("" if   *)
(* there is none) and the gtin13 text.  tag tells the pages of the two     *)
(* fetches of a parser apart.                                              *)

PageErr ==
    [err |-> TRUE, h1 |-> <<>>, crumbs |-> <<>>, images |-> <<>>,
     pdf |-> <<>>, gtin |-> <<>>]

\* A page with a heading and one breadcrumb entry only.
PageHead(tag) ==
    [err |-> FALSE, h1 |-> <<"N", tag>>, crumbs |-> << <<"H">> >>,
     images |-> <<>>, pdf |-> <<>>, gtin |-> <<>>]

\* A complete product page.
PageFull(tag) ==
    [err |-> FALSE, h1 |-> <<"N", tag>>,
     crumbs |-> << <<"H">>, <<"C", tag>>, <<"P">> >>,
     images |-> [i \in 1..MaxImages |-> <<"u", tag, Digits[i + 1]>>],
     pdf |-> <<"p", tag>>, gtin |-> <<"4">>]

\* The pages a fetch of a run gets, and those tried on the router alone.
Pages(tag) == {PageErr, PageFull(tag)}

AllPages(tag) == {PageErr, PageHead(tag), PageFull(tag)}

\* crumbs[-2] when there are at least two entries
Category(crumbs) == IF Len(crumbs) >= 2 THEN crumbs[Len(crumbs) - 1] ELSE <<>>

---------------------------------------------------------------------------
(* The parsers.  Each returns the dict it builds; a dict is a function     *)
(* from its keys.  A fetch that raised leaves the fields of its language   *)
(* as they were initialised.                                               *)

parse_schneider(code, pen, ptr) ==
    LET data == [brand |-> nmSchneider, code |-> code,
                 name_en |-> <<>>, name_tr |-> <<>>,
                 breadcrumbs_en |-> <<>>, breadcrumbs_tr |-> <<>>,
                 category_en |-> <<>>, category_tr |-> <<>>,
                 datasheet_en |-> <<>>, datasheet_tr |-> <<>>,
                 ean |-> <<>>, images |-> <<>>]
        en == IF pen.err THEN data
              ELSE [data EXCEPT !.name_en = pen.h1,
                                !.breadcrumbs_en = JoinStr(sCrumbSep, pen.crumbs),
                                !.category_en = Category(pen.crumbs),
                                !.images = pen.images,
                                !.datasheet_en = pen.pdf,
                                !.ean = pen.gtin]
    IN  IF ptr.err THEN en
        ELSE [en EXCEPT !.name_tr = ptr.h1,
                        !.breadcrumbs_tr = JoinStr(sCrumbSep, ptr.crumbs),
                        !.category_tr = Category(ptr.crumbs),
                        !.datasheet_tr = ptr.pdf]

parse_abb(code, pen, ptr) ==
    LET data == [brand |-> nmAbb, code |-> code,
                 name_en |-> <<>>, name_tr |-> <<>>,
                 breadcrumbs_en |-> <<>>, breadcrumbs_tr |-> <<>>,
                 category_en |-> <<>>, category_tr |-> <<>>,
                 datasheet_en |-> <<>>, datasheet_tr |-> <<>>,
                 images |-> <<>>, ean |-> <<>>]
        en == IF pen.err THEN data
              ELSE [data EXCEPT !.name_en = pen.h1,
                                !.breadcrumbs_en = JoinStr(sCrumbSep, pen.crumbs),
                                !.category_en = Category(pen.crumbs),
                                !.images = pen.images,
                                !.datasheet_en = pen.pdf]
    IN  IF ptr.err THEN en
        ELSE [en EXCEPT !.name_tr = ptr.h1,
                        !.breadcrumbs_tr = JoinStr(sCrumbSep, ptr.crumbs),
                        !.category_tr = Category(ptr.crumbs),
                        !.datasheet_tr = ptr.pdf]

parse_allen(code, page) ==
    LET data == [brand |-> nmAllen, code |-> code, name_en |-> <<>>,
                 breadcrumbs_en |-> <<>>, category_en |-> <<>>,
                 datasheet_en |-> <<>>, images |-> <<>>]
    IN  IF page.err THEN data
        ELSE [data EXCEPT !.name_en = page.h1,
                          !.breadcrumbs_en = JoinStr(sCrumbSep, page.crumbs),
                          !.category_en = Category(page.crumbs),
                          !.images = page.images,
                          !.datasheet_en = page.pdf]

\* Only the name and the images are read from the page.
parse_eaton(code, page) ==
    LET data == [brand |-> nmEaton, code |-> code,
                 name_en |-> <<>>, name_tr |-> <<>>,
                 breadcrumbs_en |-> <<>>, breadcrumbs_tr |-> <<>>,
                 category_en |-> <<>>, category_tr |-> <<>>,
                 datasheet_en |-> <<>>, datasheet_tr |-> <<>>,
                 images |-> <<>>]
    IN  IF page.err THEN data
        ELSE [data EXCEPT !.name_en = page.h1, !.images = page.images]

\* The page is the same for every code; the fields are the German ones.
parse_legrand(code, page) ==
    LET data == [brand |-> nmLegrand, code |-> code, name_de |-> <<>>,
                 breadcrumbs_de |-> <<>>, category_de |-> <<>>,
                 datasheet_en |-> <<>>, datasheet_tr |-> <<>>, images |-> <<>>]
    IN  IF page.err THEN data
        ELSE [data EXCEPT !.name_de = page.h1,
                          !.breadcrumbs_de = JoinStr(sCrumbSep, page.crumbs),
                          !.category_de = Category(page.crumbs),
                          !.images = page.images]

parse_wago(code, page) ==
    LET data == [brand |-> nmWago, code |-> code,
                 name_en |-> <<>>, name_tr |-> <<>>,
                 breadcrumbs_en |-> <<>>, breadcrumbs_tr |-> <<>>,
                 category_en |-> <<>>, category_tr |-> <<>>,
                 datasheet_en |-> <<>>, datasheet_tr |-> <<>>,
                 images |-> <<>>]
    IN  IF page.err THEN data
        ELSE [data EXCEPT !.name_en = page.h1, !.images = page.images]

parse_siemens(code, page) ==
    LET data == [brand |-> nmSiemens, code |-> code, name_en |-> <<>>,
                 breadcrumbs_en |-> <<>>, category_en |-> <<>>,
                 datasheet_en |-> <<>>, datasheet_tr |-> <<>>, images |-> <<>>]
    IN  IF page.err THEN data
        ELSE [data EXCEPT !.name_en = page.h1,
                          !.breadcrumbs_en = JoinStr(sCrumbSep, page.crumbs),
                          !.category_en = Category(page.crumbs),
                          !.images = page.images]

---------------------------------------------------------------------------
(* The brand router.                                                       *)

\* Python's None, as a value that no dict equals.
NoneVal == [None |-> TRUE]

\* A slip the router could have: a brand that matches no keyword is handed
\* to the last parser instead of being refused.
Route_fallthrough(b, code, p1, p2) ==
    IF Contains(kwSchneider, b) THEN parse_schneider(code, p1, p2)
    ELSE IF Contains(kwAbb, b) THEN parse_abb(code, p1, p2)
    ELSE IF Contains(kwAllen, b) \/ Contains(kwRockwell, b) THEN parse_allen(code, p1)
    ELSE IF Contains(kwEaton, b) THEN parse_eaton(code, p1)
    ELSE IF Contains(kwLegrand, b) THEN parse_legrand(code, p1)
    ELSE IF Contains(kwWago, b) THEN parse_wago(code, p1)
    ELSE parse_siemens(code, p1)

\* The chain of keyword tests on b, the lower-cased and trimmed brand: the
\* first keyword that b contains selects the parser; p1 and p2 are the
\* pages the parser's first and second fetch get.
Route(b, code, p1, p2) ==
    IF Contains(kwSchneider, b) THEN parse_schneider(code, p1, p2)
    ELSE IF Contains(kwAbb, b) THEN parse_abb(code, p1, p2)
    ELSE IF Contains(kwAllen, b) \/ Contains(kwRockwell, b) THEN parse_allen(code, p1)
    ELSE IF Contains(kwEaton, b) THEN parse_eaton(code, p1)
    ELSE IF Contains(kwLegrand, b) THEN parse_legrand(code, p1)
    ELSE IF Contains(kwWago, b) THEN parse_wago(code, p1)
    ELSE IF Contains(kwSiemens, b) THEN parse_siemens(code, p1)
    ELSE NoneVal

scrape_by_brand(brand, code, p1, p2) == Route(Strip(Lower(brand)), code, p1, p2)

\* Python truth value of what scrape_by_brand returned: None and the empty
\* dict are false, every other dict is true.
Truthy(d) == d # NoneVal /\ DOMAIN d # {}

\* d.get(key, default)
Get(d, key, default) == IF key \in DOMAIN d THEN d[key] ELSE default

---------------------------------------------------------------------------
(* Paths, directories and files.  A path is a string; dirs is the set of   *)
(* directories that exist and fs maps the path of every file that exists   *)
(* to its content.                                                         *)

Last(s) == s[Len(s)]

\* os.path.join(a, b)
Join(a, b) ==
    IF StartsWith(b, <<"/">>) THEN b
    ELSE IF a = <<>> \/ Last(a) = "/" THEN a \o b
    ELSE a \o <<"/">> \o b

Join3(a, b, c) == Join(Join(a, b), c)

Slashes(p) == {i \in DOMAIN p : p[i] = "/"}

\* The directory a path lies in: what precedes its last separator.
DirOf(p) ==
    IF Slashes(p) = {} THEN <<>>
    ELSE SubSeq(p, 1, (CHOOSE i \in Slashes(p) : \A j \in Slashes(p) : j <= i) - 1)

\* A directory path without a trailing separator.
NoTrail(p) == IF p # <<>> /\ Last(p) = "/" THEN SubSeq(p, 1, Len(p) - 1) ELSE p

\* The path itself and every directory above it.
Ancestors(p) ==
    {NoTrail(p)} \cup {SubSeq(p, 1, i - 1) : i \in {j \in Slashes(p) : j > 1}}

\* os.makedirs(p, exist_ok=True) raises when a file is in the way.
MakedirsRaises(files, p) == \E a \in Ancestors(p) : a \in DOMAIN files

Makedirs(ds, p) == ds \cup Ancestors(p)

\* open(p, "w") and Image.save(p) need the directory of p to exist and p
\* not to be a directory.
CanOpen(ds, p) == p # <<>> /\ Last(p) # "/" /\ DirOf(p) \in ds /\ p \notin ds

\* The file p with content c is written.
WriteFile(files, p, c) == [q \in DOMAIN files \cup {p} |-> IF q = p THEN c ELSE files[q]]

\* Files below a directory, and a path relative to a directory
\* (os.walk and os.path.relpath for a path below the directory).
IsUnder(p, dir) == StartsWith(p, dir \o <<"/">>)

RelPath(p, dir) == SubSeq(p, Len(dir) + 2, Len(p))

---------------------------------------------------------------------------
(* The two download helpers.  resp is what requests.get does for the URL:  *)
(* it raises (transport), or answers with a status and a body that is      *)
(* an image or is not.  Each helper returns [ok, files]: its return value  *)
(* and the files after the call.                                           *)

Responses ==
    {[raised |-> TRUE,  status |-> 0,   image |-> FALSE],
     [raised |-> FALSE, status |-> 404, image |-> FALSE],
     [raised |-> FALSE, status |-> 200, image |-> FALSE],
     [raised |-> FALSE, status |-> 200, image |-> TRUE]}

\* requests.get raising, a status other than 200, a body PIL cannot open
\* and a save that cannot open its file all end in False with nothing
\* written; otherwise the RGB image is saved as webp.
download_image_to_webp(files, ds, url, save_path, resp) ==
    IF resp.raised THEN [ok |-> FALSE, files |-> files]
    ELSE IF resp.status # 200 THEN [ok |-> FALSE, files |-> files]
    ELSE IF ~resp.image THEN [ok |-> FALSE, files |-> files]
    ELSE IF ~CanOpen(ds, save_path) THEN [ok |-> FALSE, files |-> files]
    ELSE [ok |-> TRUE,
          files |-> WriteFile(files, save_path, [kind |-> "webp", data |-> url])]

\* A slip download_file could have: the file is opened before the request.
download_file_openfirst(files, ds, url, save_path, resp) ==
    IF ~CanOpen(ds, save_path) THEN [ok |-> FALSE, files |-> files]
    ELSE IF resp.raised \/ resp.status # 200
         THEN [ok |-> FALSE,
               files |-> WriteFile(files, save_path, [kind |-> "raw", data |-> <<>>])]
    ELSE [ok |-> TRUE,
          files |-> WriteFile(files, save_path, [kind |-> "raw", data |-> url])]

\* The body of a 200 answer is written as it is.
download_file(files, ds, url, save_path, resp) ==
    IF resp.raised THEN [ok |-> FALSE, files |-> files]
    ELSE IF resp.status # 200 THEN [ok |-> FALSE, files |-> files]
    ELSE IF ~CanOpen(ds, save_path) THEN [ok |-> FALSE, files |-> files]
    ELSE [ok |-> TRUE,
          files |-> WriteFile(files, save_path, [kind |-> "raw", data |-> url])]

---------------------------------------------------------------------------
(* The uploaded file and the table pandas reads from it.                   *)
(*                                                                         *)
(* An upload is a spreadsheet (kind "xlsx") with its columns and rows, or  *)
(* a file pd.read_excel cannot parse.  A row maps each column to a cell;   *)
(* a cell left empty in the sheet is read as NaN, any other cell here is   *)
(* text.                                                                   *)

NaN == [nan |-> TRUE, text |-> <<>>]

Cell(text) == [nan |-> FALSE, text |-> text]

\* str(value) of a cell: NaN prints as "nan".
CellStr(cell) == IF cell.nan THEN sNan ELSE cell.text

inSchneider ==
    <<"S", "c", "h", "n", "e", "i", "d", "e", "r", " ", "E", "l", "e", "c", "t", "r", "i", "c">>

inAbb ==
    <<"A", "B", "B">>

inAllen ==
    <<"A", "l", "l", "e", "n", "-", "B", "r", "a", "d", "l", "e", "y">>

inRockwell ==
    <<" ", "R", "o", "c", "k", "w", "e", "l", "l", " ">>

inEaton ==
    <<"E", "A", "T", "O", "N">>

inLegrand ==
    <<"L", "e", "g", "r", "a", "n", "d">>

inWago ==
    <<"w", "a", "g", "o">>

inSiemens ==
    <<"S", "i", "e", "m", "e", "n", "s">>

inUnknown ==
    <<"U", "n", "k", "n", "o", "w", "n", "B", "r", "a", "n", "d">>

inCodeA ==
    <<"a", "1">>

inCodeD ==
    <<"d", "4">>

inCodeSlash ==
    <<"l", "6", "/", "b">>

inBlank ==
    <<" ">>

InRow(b, c) == [brand |-> b, product_code |-> c]

\* The rows the explored tables are made of: a product of a brand whose
\* parser fetches two pages, a product with an empty code cell, a row with
\* an empty and one with a blank brand cell, a brand no keyword matches,
\* and a code with a "/" in it.
SampleRows ==
    {InRow(Cell(inSchneider), Cell(inCodeA)),
     InRow(Cell(inSiemens), NaN),
     InRow(NaN, Cell(inCodeD)),
     InRow(Cell(inBlank), Cell(inCodeD)),
     InRow(Cell(inUnknown), Cell(inCodeA)),
     InRow(Cell(inAllen), Cell(inCodeSlash))}

Table(cols, rows) == [kind |-> "xlsx", columns |-> cols, rows |-> rows]

GoodTables ==
    {Table({"brand", "product_code"}, rows) :
        rows \in UNION {[1..n -> SampleRows] : n \in 0..MaxRows}}

\* Uploads that are no spreadsheet or lack a required column.
BadUploads ==
    {[kind |-> "other", columns |-> {}, rows |-> <<>>],
     Table({"product_code"}, <<>>),
     Table({"product_code"}, <<[product_code |-> Cell(inCodeA)]>>),
     Table({"brand"}, <<[brand |-> Cell(inSchneider)]>>)}

Uploads == GoodTables \cup BadUploads

---------------------------------------------------------------------------
(* State.                                                                  *)

VARIABLES
    now,          \* the clock: seconds after 10:00 on the day of the run
    upload,       \* the file posted to /process-products
    pc,           \* where process_products is
    response,     \* what the caller gets
    root_folder,  \* "Research-<time_str>"
    dirs,         \* the directories that exist
    fs,           \* the files that exist: path -> content
    df,           \* the rows read from the sheet
    idx,          \* rows the loop has finished
    en_rows,      \* rows collected for the EN table
    tr_rows,      \* rows collected for the TR table
    brand,        \* locals of the loop body
    code,
    d,
    k,            \* images of the current product already attempted
    count,        \* the image counter
    lastDl,       \* history: the download the last step made, if it made one
    saved,        \* history: the paths the current product's images were saved to
    fnIn,         \* SpecFn: the string given to clean_filename
    fnOut,        \* SpecFn: the results of applying it once and twice
    fnApplied     \* SpecFn: how often it was applied

vars ==
    <<now, upload, pc, response, root_folder, dirs, fs, df, idx, en_rows,
      tr_rows, brand, code, d, k, count, lastDl, saved, fnIn, fnOut, fnApplied>>

runVars ==
    <<now, upload, pc, response, root_folder, dirs, fs, df, idx, en_rows,
      tr_rows, brand, code, d, k, count, lastDl, saved>>

fnVars == <<fnIn, fnOut, fnApplied>>

---------------------------------------------------------------------------
(* The names process_products derives from the clock.                      *)

\* datetime.now().strftime("%d-%m-%Y-at-%H-%M") within the hour modelled
TimeStr(t) == sDatePrefix \o Pad2((t \div 60) % 60)

RootFolder(t) == sResearch \o TimeStr(t)

root_path == Join(BASE_DIR, root_folder)

images_root == Join(root_path, sImages)

info_en_breadcrumbs == Join(Join3(root_path, sInfo, sEn), sBreadcrumbs)

info_tr_breadcrumbs == Join(Join3(root_path, sInfo, sTr), sSayfaYollari)

datasheets_root == Join(root_path, sDatasheets)

info_en_dir == Join3(root_path, sInfo, sEn)

info_tr_dir == Join3(root_path, sInfo, sTr)

zip_name == root_folder \o sZip

\* A slip: the archive is created inside the folder it packs.
zip_path_inside == Join(root_path, zip_name)

zip_path == Join(BASE_DIR, zip_name)

sStaticUrl ==
    <<"h", "t", "t", "p", "s", ":", "/", "/", "w", "e", "l", "t", "r", "a", "d", "a", "-", "a", "u", "t", "o", "m", "a", "t", "i", "o", "n", ".", "o", "n", "r", "e", "n", "d", "e", "r", ".", "c", "o", "m", "/", "s", "t", "a", "t", "i", "c", "/">>

NoDownload ==
    [kind |-> "none", url |-> <<>>, path |-> <<>>, resp |-> [raised |-> FALSE, status |-> 0, image |-> FALSE],
     ok |-> FALSE, untouched |-> TRUE]

Pending == [status |-> "pending", zip_file |-> <<>>, download_url |-> <<>>]

\* An exception that leaves process_products: the server answers 500
\* "Internal Server Error"; the handler itself builds no error response.
ServerError == [status |-> "internal server error", zip_file |-> <<>>, download_url |-> <<>>]

---------------------------------------------------------------------------
(* process_products, step by step.                                         *)

Init ==
    /\ now = 0
    /\ upload \in Uploads
    /\ pc = "idle"
    /\ response = Pending
    /\ root_folder = <<>>
    /\ dirs = Ancestors(BASE_DIR)
    /\ fs = << >>
    /\ df = <<>>
    /\ idx = 0
    /\ en_rows = <<>>
    /\ tr_rows = <<>>
    /\ brand = <<>>
    /\ code = <<>>
    /\ d = NoneVal
    /\ k = 0
    /\ count = 1
    /\ lastDl = NoDownload
    /\ saved = <<>>
    /\ fnIn = <<>>
    /\ fnOut = <<>>
    /\ fnApplied = 0

\* The run folder and its four sub-folders are made and the upload is
\* copied to uploaded.xlsx.
Start ==
    /\ pc = "idle"
    /\ root_folder' = RootFolder(now)
    /\ LET rp == Join(BASE_DIR, RootFolder(now))
       IN  /\ dirs' = Makedirs(Makedirs(Makedirs(Makedirs(dirs,
                          Join(rp, sImages)),
                          Join(Join3(rp, sInfo, sEn), sBreadcrumbs)),
                          Join(Join3(rp, sInfo, sTr), sSayfaYollari)),
                          Join(rp, sDatasheets))
           /\ fs' = WriteFile(fs, Join(rp, sUploaded), [kind |-> "upload", data |-> upload])
    /\ pc' = "read"
    /\ UNCHANGED <<now, upload, response, df, idx, en_rows, tr_rows, brand, code,
                   d, k, count, lastDl, saved>>
    /\ UNCHANGED fnVars

\* pd.read_excel: the rows of a spreadsheet, or an exception nothing catches.
ReadExcel ==
    /\ pc = "read"
    /\ IF upload.kind = "xlsx"
       THEN /\ df' = upload.rows
            /\ pc' = "row"
            /\ response' = response
       ELSE /\ df' = df
            /\ pc' = "failed"
            /\ response' = ServerError
    /\ en_rows' = <<>>
    /\ tr_rows' = <<>>
    /\ idx' = 0
    /\ UNCHANGED <<now, upload, root_folder, dirs, fs, brand, code, d, k, count,
                   lastDl, saved>>
    /\ UNCHANGED fnVars

\* The row appended to en_rows.
EnRow(b, c, dd) ==
    ("Product Code" :> c) @@ ("Brand" :> b)
    @@ ("Product Name" :> Get(dd, "name_en", Get(dd, "name_de", <<>>)))
    @@ ("Category" :> Get(dd, "category_en", Get(dd, "category_de", <<>>)))

\* The row appended to tr_rows.  Its keys are "Ürün kodu", "Marka",
\* "Ürün Adı" and "Kategori" in the source.
TrRow(b, c, dd) ==
    ("Urun kodu" :> c) @@ ("Marka" :> b)
    @@ ("Urun Adi" :> Get(dd, "name_tr", Get(dd, "name_en", Get(dd, "name_de", <<>>))))
    @@ ("Kategori" :>
          Get(dd, "category_tr", Get(dd, "category_en", Get(dd, "category_de", <<>>))))

bc_en_of(dd) == Get(dd, "breadcrumbs_en", Get(dd, "breadcrumbs_de", <<>>))

bc_tr_of(dd) == Get(dd, "breadcrumbs_tr", bc_en_of(dd))

Text(t) == [kind |-> "text", data |-> t]

\* "if not d: continue"
SkipsRow(dd) == ~Truthy(dd)

\* The variables the loop body changes, as they are before it.
Before ==
    [raised |-> FALSE, skipped |-> FALSE, brand |-> brand, code |-> code, d |-> d,
     en_rows |-> en_rows, tr_rows |-> tr_rows, fs |-> fs, dirs |-> dirs]

\* The two breadcrumb files are written and the product's image folder is
\* made.  st holds the variables after the rows were appended; an open()
\* or makedirs() that raises ends the handler where it stands.
WriteBreadcrumbs(st, f_en, f_tr, img_dir, bc_en, bc_tr) ==
    IF ~CanOpen(dirs, f_en) THEN [st EXCEPT !.raised = TRUE]
    ELSE IF ~CanOpen(dirs, f_tr)
         THEN [st EXCEPT !.raised = TRUE, !.fs = WriteFile(fs, f_en, Text(bc_en))]
    ELSE IF MakedirsRaises(WriteFile(WriteFile(fs, f_en, Text(bc_en)), f_tr, Text(bc_tr)),
                           img_dir)
         THEN [st EXCEPT !.raised = TRUE,
                         !.fs = WriteFile(WriteFile(fs, f_en, Text(bc_en)), f_tr, Text(bc_tr))]
    ELSE [st EXCEPT !.fs = WriteFile(WriteFile(fs, f_en, Text(bc_en)), f_tr, Text(bc_tr)),
                    !.dirs = Makedirs(dirs, img_dir)]

\* The loop body from the call of scrape_by_brand, which returned dd, up
\* to the image loop.
LoopBody(b, c, dd) ==
    IF SkipsRow(dd)
    THEN [Before EXCEPT !.skipped = TRUE, !.brand = b, !.code = c, !.d = dd]
    ELSE WriteBreadcrumbs(
             [Before EXCEPT !.brand = b, !.code = c, !.d = dd,
                            !.en_rows = Append(en_rows, EnRow(b, c, dd)),
                            !.tr_rows = Append(tr_rows, TrRow(b, c, dd))],
             Join(info_en_breadcrumbs, c \o sBreadcrumbsTxt),
             Join(info_tr_breadcrumbs, c \o sSayfaYoluTxt),
             Join(images_root, c),
             bc_en_of(dd), bc_tr_of(dd))

Scrape(b, c, p1, p2) == LoopBody(b, c, scrape_by_brand(b, c, p1, p2))

\* One pass of the loop body up to the image loop, for the row and the
\* pages its parser fetches: the values of the variables after it.  raised
\* tells that an exception left the handler: row[...] of a column the sheet
\* does not have, or a file that cannot be opened.
RowOutcome(row, p1, p2) ==
    IF "brand" \notin DOMAIN row THEN [Before EXCEPT !.raised = TRUE]
    ELSE IF "product_code" \notin DOMAIN row
         THEN [Before EXCEPT !.raised = TRUE, !.brand = Strip(CellStr(row["brand"]))]
    ELSE Scrape(Strip(CellStr(row["brand"])),
                Upper(Strip(CellStr(row["product_code"]))), p1, p2)

\* Python truth value of d.get(key): the key is there and its string is
\* not empty.
HasDatasheet(dd, key) == key \in DOMAIN dd /\ dd[key] # <<>>

\* The loop body for the next row, up to the image loop.
RowStep ==
    /\ pc = "row"
    /\ idx < Len(df)
    /\ \E p1 \in Pages("1"), p2 \in Pages("2") :
          \E r \in {RowOutcome(df[idx + 1], p1, p2)} :
              /\ brand' = r.brand
              /\ code' = r.code
              /\ d' = r.d
              /\ en_rows' = r.en_rows
              /\ tr_rows' = r.tr_rows
              /\ fs' = r.fs
              /\ dirs' = r.dirs
              /\ pc' = IF r.raised THEN "failed"
                       ELSE IF r.skipped THEN "row"
                       ELSE IF Get(r.d, "images", <<>>) # <<>> THEN "images"
                       ELSE "ds_en"
              /\ response' = IF r.raised THEN ServerError ELSE response
              /\ idx' = IF r.skipped THEN idx + 1 ELSE idx
    /\ k' = 0
    /\ count' = 1
    /\ saved' = <<>>
    /\ lastDl' = NoDownload
    /\ UNCHANGED <<now, upload, root_folder, df>>
    /\ UNCHANGED fnVars

\* A slip the image loop could have: the counter counts attempts.
NextCount_every_attempt(c, ok) == c + 1

\* "if download_image_to_webp(url, save_path): count += 1"
NextCount(c, ok) == IF ok THEN c + 1 ELSE c

\* f"{clean_filename(brand)}-{code.lower()}-{count:03d}.webp" in the
\* product's image folder
ImagePath(b, c, n) ==
    Join(Join(images_root, c),
         clean_filename(b) \o <<"-">> \o Lower(c) \o <<"-">> \o Pad3(n) \o sWebp)

\* One turn of the image loop.
SaveImage ==
    /\ pc = "images"
    /\ k < Len(d["images"])
    /\ \E resp \in Responses :
          \E url \in {d["images"][k + 1]}, save_path \in {ImagePath(brand, code, count)} :
          \E r \in {download_image_to_webp(fs, dirs, url, save_path, resp)} :
              /\ fs' = r.files
              /\ count' = NextCount(count, r.ok)
              /\ saved' = IF r.ok THEN Append(saved, save_path) ELSE saved
              /\ lastDl' = [kind |-> "image", url |-> url, path |-> save_path,
                            resp |-> resp, ok |-> r.ok, untouched |-> (r.files = fs)]
    /\ k' = k + 1
    /\ pc' = IF k + 1 = Len(d["images"]) THEN "ds_en" ELSE "images"
    /\ UNCHANGED <<now, upload, response, root_folder, dirs, df, idx, en_rows,
                   tr_rows, brand, code, d>>
    /\ UNCHANGED fnVars

\* One datasheet of the current product: downloaded when the dict has a
\* URL under the key.
Datasheet(key, suffix) ==
    IF HasDatasheet(d, key)
    THEN \E resp \in Responses :
            \E path \in {Join(datasheets_root, code \o suffix)} :
            \E r \in {download_file(fs, dirs, d[key], path, resp)} :
                /\ fs' = r.files
                /\ lastDl' = [kind |-> "file", url |-> d[key], path |-> path,
                              resp |-> resp, ok |-> r.ok, untouched |-> (r.files = fs)]
    ELSE /\ fs' = fs
         /\ lastDl' = NoDownload

DatasheetEn ==
    /\ pc = "ds_en"
    /\ Datasheet("datasheet_en", sDatasheetEnPdf)
    /\ pc' = "ds_tr"
    /\ UNCHANGED <<now, upload, response, root_folder, dirs, df, idx, en_rows,
                   tr_rows, brand, code, d, k, count, saved>>
    /\ UNCHANGED fnVars

\* The last statement of the loop body: the loop goes on with the next row.
DatasheetTr ==
    /\ pc = "ds_tr"
    /\ Datasheet("datasheet_tr", sDatasheetTrPdf)
    /\ idx' = idx + 1
    /\ pc' = "row"
    /\ UNCHANGED <<now, upload, response, root_folder, dirs, df, en_rows,
                   tr_rows, brand, code, d, k, count, saved>>
    /\ UNCHANGED fnVars

TableFile(columns, rows) == [kind |-> "table", columns |-> columns, rows |-> rows]

\* "if en_rows:" / "if tr_rows:"
WritesTable(rows) == rows # <<>>

\* After the loop: the two tables are written.
WriteTables ==
    /\ pc = "row"
    /\ idx = Len(df)
    /\ dirs' = Makedirs(Makedirs(dirs, info_en_dir), info_tr_dir)
    /\ LET f1 == IF WritesTable(en_rows)
                 THEN WriteFile(fs, Join(info_en_dir, sProductsInfo),
                          TableFile(<<"Product Code", "Brand", "Product Name", "Category">>,
                                    en_rows))
                 ELSE fs
       IN  fs' = IF WritesTable(tr_rows)
                 THEN WriteFile(f1, Join(info_tr_dir, sUrunDetaylari),
                          TableFile(<<"Urun kodu", "Marka", "Urun Adi", "Kategori">>,
                                    tr_rows))
                 ELSE f1
    /\ pc' = "zip"
    /\ lastDl' = NoDownload
    /\ UNCHANGED <<now, upload, response, root_folder, df, idx, en_rows, tr_rows,
                   brand, code, d, k, count, saved>>
    /\ UNCHANGED fnVars

\* What zipfile writes: the archive file is created, then every file
\* os.walk finds below root_path is stored under its relative path.
ZipEntries ==
    LET created == WriteFile(fs, zip_path, [kind |-> "zip", data |-> << >>])
        found == {p \in DOMAIN created : IsUnder(p, root_path)}
    IN  [e \in {RelPath(p, root_path) : p \in found} |->
            created[CHOOSE p \in found : RelPath(p, root_path) = e]]

\* The archive is written and the success result returned.
WriteZip ==
    /\ pc = "zip"
    /\ fs' = WriteFile(fs, zip_path, [kind |-> "zip", data |-> ZipEntries])
    /\ response' = [status |-> "success", zip_file |-> zip_name,
                    download_url |-> sStaticUrl \o zip_name]
    /\ pc' = "done"
    /\ UNCHANGED <<now, upload, root_folder, dirs, df, idx, en_rows, tr_rows,
                   brand, code, d, k, count, lastDl, saved>>
    /\ UNCHANGED fnVars

Next ==
    \/ Start
    \/ ReadExcel
    \/ RowStep
    \/ SaveImage
    \/ DatasheetEn
    \/ DatasheetTr
    \/ WriteTables
    \/ WriteZip

Spec == Init /\ [][Next]_vars

---------------------------------------------------------------------------
(* SpecFn: clean_filename and scrape_by_brand as functions of a string.   *)

FnAlphabet == {"a", "B", "1", " ", "-", "_", ".", CapitalDottedI}

FnStrings == UNION {[1..n -> FnAlphabet] : n \in 0..MaxLen}

\* The brand names of the sample rows and one for each remaining keyword.
FnBrands ==
    {inSchneider, inAbb, inAllen, inRockwell, inEaton, inLegrand, inWago, inSiemens,
     inUnknown}

InitFn ==
    /\ now = 0
    /\ upload = Table({"brand", "product_code"}, <<>>)
    /\ pc = "fn"
    /\ response = Pending
    /\ root_folder = <<>>
    /\ dirs = Ancestors(BASE_DIR)
    /\ fs = << >>
    /\ df = <<>>
    /\ idx = 0
    /\ en_rows = <<>>
    /\ tr_rows = <<>>
    /\ brand = <<>>
    /\ code = <<>>
    /\ d = NoneVal
    /\ k = 0
    /\ count = 1
    /\ lastDl = NoDownload
    /\ saved = <<>>
    /\ fnIn \in FnStrings \cup FnBrands
    /\ fnOut = <<>>
    /\ fnApplied = 0

\* clean_filename is applied to the input, then to its own result.
Clean ==
    /\ pc = "fn"
    /\ fnApplied < 2
    /\ fnOut' = Append(fnOut, clean_filename(IF fnApplied = 0 THEN fnIn ELSE fnOut[fnApplied]))
    /\ fnApplied' = fnApplied + 1
    /\ UNCHANGED fnIn
    /\ UNCHANGED runVars

\* scrape_by_brand is called with the input as the brand.
Resolve ==
    /\ pc = "fn"
    /\ d = NoneVal
    /\ \E p1 \in AllPages("1"), p2 \in AllPages("2") :
          d' = scrape_by_brand(fnIn, Upper(inCodeA), p1, p2)
    /\ brand' = fnIn
    /\ code' = Upper(inCodeA)
    /\ UNCHANGED <<now, upload, pc, response, root_folder, dirs, fs, df, idx,
                   en_rows, tr_rows, k, count, lastDl, saved>>
    /\ UNCHANGED fnVars

NextFn ==
    \/ Clean
    \/ Resolve

SpecFn == InitFn /\ [][NextFn]_vars

----------------------------------------------------------------------------
(* SpecRuns: the endpoint answers one request after the other.  The       *)
(* handler is a coroutine that never awaits, so a request is served to    *)
(* its end before the next one starts; the folders and files of earlier   *)
(* runs stay on the disk.                                                  *)

\* The clock stops here: seconds after the first request.
MaxClock == 60

\* Seconds from the start of one request to the start of the next.
Delays == {40, 60}

\* The sheets posted in SpecRuns: no rows, a row no parser takes, and a
\* product whose pages, images and datasheets are fetched.
RunUploads ==
    {Table({"brand", "product_code"}, <<>>),
     Table({"brand", "product_code"}, <<InRow(Cell(inUnknown), Cell(inCodeA))>>),
     Table({"brand", "product_code"}, <<InRow(Cell(inSchneider), Cell(inCodeA))>>)}

InitRuns ==
    /\ Init
    /\ upload \in RunUploads

\* The response has been returned; later another file is posted.  The
\* handler's locals are gone, the disk is as the earlier runs left it.
NewRequest ==
    /\ pc \in {"done", "failed"}
    /\ \E delay \in Delays :
          /\ now + delay <= MaxClock
          /\ now' = now + delay
    /\ upload' \in RunUploads
    /\ pc' = "idle"
    /\ response' = Pending
    /\ root_folder' = <<>>
    /\ df' = <<>>
    /\ idx' = 0
    /\ en_rows' = <<>>
    /\ tr_rows' = <<>>
    /\ brand' = <<>>
    /\ code' = <<>>
    /\ d' = NoneVal
    /\ k' = 0
    /\ count' = 1
    /\ lastDl' = NoDownload
    /\ saved' = <<>>
    /\ UNCHANGED <<dirs, fs>>
    /\ UNCHANGED fnVars

NextRuns ==
    \/ Next
    \/ NewRequest

SpecRuns == InitRuns /\ [][NextRuns]_vars

---------------------------------------------------------------------------
(* Properties.                                                             *)

Keywords ==
    {kwSchneider, kwAbb, kwAllen, kwRockwell, kwEaton, kwLegrand, kwWago, kwSiemens}

\* The lower-cased, trimmed brand contains none of the keywords.
NoKeyword(text) == \A kw \in Keywords : ~Contains(kw, Strip(Lower(text)))

HasColumns(row) == {"brand", "product_code"} \subseteq DOMAIN row

\* The loop is about to take the row CurRow.
AtRow == pc = "row" /\ idx < Len(df)

CurRow == df[idx + 1]

\* A cell that is empty, or blank once trimmed.
EmptyCell(cell) == cell.nan \/ Strip(cell.text) = <<>>

EndsWith(s, t) == Len(t) <= Len(s) /\ SubSeq(s, Len(s) - Len(t) + 1, Len(s)) = t

\* The archive the run wrote.
Archive == fs[zip_path].data

\* C1: a row whose brand or product_code is empty after trimming adds no
\* entry to the EN or TR table and writes no file.
C1_EmptyFieldRowSkipped ==
    [][(AtRow /\ HasColumns(CurRow)
          /\ (EmptyCell(CurRow["brand"]) \/ EmptyCell(CurRow["product_code"])))
       => (en_rows' = en_rows /\ tr_rows' = tr_rows /\ fs' = fs)]_vars

\* C2: for a brand that contains none of the keywords scrape_by_brand
\* returns None and process_products skips the row: no table row, no file,
\* and the loop goes on with the next row.
C2_UnknownBrandSkipped ==
    [][(AtRow /\ HasColumns(CurRow) /\ NoKeyword(Strip(CellStr(CurRow["brand"]))))
       => (/\ d' = NoneVal
           /\ en_rows' = en_rows /\ tr_rows' = tr_rows
           /\ fs' = fs /\ dirs' = dirs
           /\ response' = response
           /\ pc' = "row" /\ idx' = idx + 1)]_vars

\* A run that skipped an unrecognised brand in its first row, processed the
\* second row and finished.
C2_Witness ==
    /\ pc = "done"
    /\ Len(df) = 2
    /\ NoKeyword(Strip(CellStr(df[1]["brand"])))
    /\ ~EmptyCell(df[1]["brand"])
    /\ Len(en_rows) = 1

\* The number written in the three digits before ".webp".
SuffixNumber(p) ==
    100 * (IndexIn(Digits, p[Len(p) - 7]) - 1)
    + 10 * (IndexIn(Digits, p[Len(p) - 6]) - 1)
    + (IndexIn(Digits, p[Len(p) - 5]) - 1)

IsImageFile(p) == IsUnder(p, images_root) /\ EndsWith(p, sWebp)

\* C3: the k-th successful save of a product's images goes to the file
\* with suffix k (three digits, zero padded), the counter is one more than
\* the number of saves, and the image files have suffixes 001..n without
\* gaps.
C3_CounterCountsSaves ==
    /\ count = Len(saved) + 1
    /\ \A i \in 1..Len(saved) :
          /\ saved[i] = Join(Join(images_root, code),
                             clean_filename(brand) \o <<"-">> \o Lower(code) \o <<"-">>
                                \o Pad3(i) \o sWebp)
          /\ saved[i] \in DOMAIN fs
    /\ \A p \in DOMAIN fs :
          IsImageFile(p) =>
             /\ SuffixNumber(p) >= 1
             /\ SuffixNumber(p) > 1 =>
                   (SubSeq(p, 1, Len(p) - 8) \o Pad3(SuffixNumber(p) - 1) \o sWebp)
                       \in DOMAIN fs

\* The first image failed and the second was saved, as number 001.
C3_Witness ==
    /\ pc \in {"images", "ds_en"}
    /\ k = 2
    /\ Len(saved) = 1
    /\ lastDl.ok
    /\ fs[saved[1]].data = d["images"][2]
    /\ EndsWith(saved[1], <<"-", "0", "0", "1">> \o sWebp)

\* The upload is a spreadsheet with both required columns.
GoodUpload == upload.kind = "xlsx" /\ {"brand", "product_code"} \subseteq upload.columns

Recognised(row) == ~NoKeyword(Strip(CellStr(row["brand"])))

\* C4: whatever fails in whichever rows of an input table, every row is
\* processed, the archive is written and the success result returned, and
\* the tables hold a row for each product row of the input.
C4_RowErrorsIsolated ==
    GoodUpload =>
       /\ pc # "failed"
       /\ pc = "done" =>
             /\ idx = Len(df)
             /\ response.status = "success"
             /\ zip_path \in DOMAIN fs
             /\ [i \in 1..Len(en_rows) |-> en_rows[i]["Product Code"]]
                   = [i \in 1..Len(SelectSeq(df, Recognised)) |->
                         Upper(Strip(CellStr(SelectSeq(df, Recognised)[i]["product_code"])))]

\* C5: the archive holds exactly the files below the run root, each under
\* its path relative to the run root and with its content, and not the
\* archive itself: unpacked at the run root it gives the run root's files.
C5_ArchiveIsRunFolder ==
    pc = "done" =>
       /\ ~IsUnder(zip_path, root_path)
       /\ \A p \in DOMAIN fs :
             IsUnder(p, root_path) =>
                /\ SubSeq(p, Len(root_path) + 2, Len(p)) \in DOMAIN Archive
                /\ Archive[SubSeq(p, Len(root_path) + 2, Len(p))] = fs[p]
       /\ \A e \in DOMAIN Archive :
             /\ ~StartsWith(e, <<"/">>)
             /\ (root_path \o <<"/">> \o e) \in DOMAIN fs
             /\ fs[root_path \o <<"/">> \o e] = Archive[e]

\* A finished run whose archive holds the audit copy, a breadcrumb file, an
\* image, a datasheet and a table.
C5_Witness ==
    /\ pc = "done"
    /\ \A kind \in {"upload", "text", "webp", "raw", "table"} :
          \E e \in DOMAIN Archive : Archive[e].kind = kind

\* C6: every run writes both output tables, also when no row qualified, so
\* that the archive has them.
C6_TablesAlwaysWritten ==
    pc = "done" =>
       /\ Join(info_en_dir, sProductsInfo) \in DOMAIN fs
       /\ Join(info_tr_dir, sUrunDetaylari) \in DOMAIN fs
       /\ Join(Join(sInfo, sEn), sProductsInfo) \in DOMAIN Archive
       /\ Join(Join(sInfo, sTr), sUrunDetaylari) \in DOMAIN Archive

RECURSIVE FirstNonEmpty(_, _)
\* The value of the first key of the chain under which dd has a string
\* that is not empty; "" if there is none.
FirstNonEmpty(dd, keys) ==
    IF keys = <<>> THEN <<>>
    ELSE IF Get(dd, Head(keys), <<>>) # <<>> THEN dd[Head(keys)]
    ELSE FirstNonEmpty(dd, Tail(keys))

\* C7: in the rows appended for a product, name and category fall back
\* through the language chain (tr, en, de for the TR table; en, de for the
\* EN table) whenever the field is empty in the primary language.
C7_FallbackWhenEmpty ==
    pc \in {"images", "ds_en", "ds_tr"} =>
       /\ tr_rows[Len(tr_rows)]["Urun Adi"]
             = FirstNonEmpty(d, <<"name_tr", "name_en", "name_de">>)
       /\ tr_rows[Len(tr_rows)]["Kategori"]
             = FirstNonEmpty(d, <<"category_tr", "category_en", "category_de">>)
       /\ en_rows[Len(en_rows)]["Product Name"]
             = FirstNonEmpty(d, <<"name_en", "name_de">>)
       /\ en_rows[Len(en_rows)]["Category"]
             = FirstNonEmpty(d, <<"category_en", "category_de">>)

\* C8: a download whose request raised or was answered with a status other
\* than 200 returns False and leaves the files as they were; a download
\* that returns True has written its file.
C8_FailedDownloadWritesNothing ==
    lastDl.kind # "none" =>
       /\ (lastDl.resp.raised \/ lastDl.resp.status # 200) =>
             (~lastDl.ok /\ lastDl.untouched)
       /\ lastDl.ok =>
             (lastDl.path \in DOMAIN fs /\ fs[lastDl.path].data = lastDl.url)

\* A datasheet URL answered 404: False, and no file at the destination.
C8_Witness ==
    /\ lastDl.kind = "file"
    /\ lastDl.resp.status = 404
    /\ ~lastDl.ok
    /\ lastDl.path \notin DOMAIN fs

\* Lower-case letters, digits, "-" and "_".
SlugChar(c) == c \in Range(LowerLetters) \cup Range(Digits) \cup {SmallDotlessI, "-", "_"}

\* C9: clean_filename applied to its own result changes nothing, and its
\* result holds only lower-case alphanumerics, "-" and "_".
C9_CleanIdempotent ==
    /\ fnApplied >= 1 => \A i \in DOMAIN fnOut[1] : SlugChar(fnOut[1][i])
    /\ fnApplied = 2 => fnOut[2] = fnOut[1]

\* C10: an upload that is no spreadsheet or lacks a required column ends in
\* an error response built by the handler and in no archive; every other
\* upload ends in the success result and an archive.
C10_ErrorOrArchive ==
    pc \in {"done", "failed"} =>
       IF GoodUpload
       THEN response.status = "success" /\ zip_path \in DOMAIN fs
       ELSE response.status = "error" /\ zip_path \notin DOMAIN fs

\* The parser's result carries nothing but the brand name and the code:
\* every name, category, breadcrumb, datasheet and image field is empty.
NoData(dd) ==
    /\ "None" \notin DOMAIN dd
    /\ \A key \in DOMAIN dd \ {"brand", "code"} : dd[key] = <<>>

\* C11: a row with a product code whose brand resolves to a parser that
\* extracts no data at all is skipped: it adds no row to the EN or TR table
\* and writes no file.
C11_EmptyExtractionSkipped ==
    [][(AtRow /\ HasColumns(CurRow)
          /\ ~NoKeyword(Strip(CellStr(CurRow["brand"])))
          /\ ~EmptyCell(CurRow["product_code"])
          /\ NoData(d') /\ pc' # "failed")
       => (en_rows' = en_rows /\ tr_rows' = tr_rows /\ fs' = fs)]_vars

\* C12: a run starts with a run root and an archive name no earlier run
\* had: when the handler makes its folders, no file lies below the new run
\* root and none has the new archive's path, so the run root and the
\* archive hold only what this run writes.
C12_RunRootUnique ==
    [][(pc = "idle" /\ pc' = "read")
       => \A p \in DOMAIN fs :
             /\ ~IsUnder(p, Join(BASE_DIR, root_folder'))
             /\ p # Join(BASE_DIR, root_folder' \o sZip)]_vars

====
